---- MODULE Spec2Model ----
(***************************************************************************)
(* A model of the FinSight AI backend, src/Backend/app.py: a Flask         *)
(* application over three tables (User, Account, Transaction) with a JWT   *)
(* auth gate.  Every request handler is one atomic action: the handler     *)
(* runs inside one database transaction that is committed (or dropped)     *)
(* before the response leaves.  The variable `last` holds the request the  *)
(* server handled last and the response it gave.                           *)
(***************************************************************************)
EXTENDS Integers, Sequences, FiniteSets, TLC

VARIABLES users, accounts, transactions, nextAcc, nextTx, now, last

vars == <<users, accounts, transactions, nextAcc, nextTx, now, last>>

store == <<users, accounts, transactions>>

(***************************************************************************)
(* Bounds of the model.                                                    *)
(***************************************************************************)
\* Accounts made by add_account, over all users.
MaxAdded == 1
\* Transaction ids handed out, over all users.
MaxTx == 3
\* The clock runs from day 0 to day MaxNow (a token lives TokenDays days).
MaxNow == 8

(***************************************************************************)
(* Program constants.                                                      *)
(***************************************************************************)
\* timedelta(days=7) in generate_token.
TokenDays == 7
\* app.config['SECRET_KEY'].
SECRET_KEY == "smart-finance-super-secret-key-123"
\* A signing key that is not the server's.
OtherKey == "some-other-secret"
\* The empty string as an id: falsy in Python, and no uuid4 equals it.
NoId == 0

(***************************************************************************)
(* Strings that are compared by order (the date column) are sequences of   *)
(* one-character strings, ordered as SQL orders text: by code point.       *)
(***************************************************************************)
CharCode(c) ==
    CASE c = "-" -> 45
      [] c = "/" -> 47
      [] c = "0" -> 48
      [] c = "1" -> 49
      [] c = "2" -> 50
      [] c = "3" -> 51
      [] c = "4" -> 52
      [] c = "5" -> 53
      [] c = "6" -> 54
      [] c = "7" -> 55
      [] c = "8" -> 56
      [] c = "9" -> 57

Digit(n) == <<"0", "1", "2", "3", "4", "5", "6", "7", "8", "9">>[n + 1]

RECURSIVE StrLess(_, _)
\* a < b as the database compares two text values.
StrLess(a, b) ==
    IF b = <<>> THEN FALSE
    ELSE IF a = <<>> THEN TRUE
    ELSE IF CharCode(Head(a)) # CharCode(Head(b))
         THEN CharCode(Head(a)) < CharCode(Head(b))
         ELSE StrLess(Tail(a), Tail(b))

StrGeq(a, b) == ~StrLess(a, b)

\* datetime.utcnow().strftime('%Y-%m-%d'): day 0 of the clock is 2024-01-01,
\* and the clock stays inside January 2024.
Today(t) ==
    <<"2", "0", "2", "4", "-", "0", "1", "-", Digit((t + 1) \div 10), Digit((t + 1) % 10)>>

(***************************************************************************)
(* Request bodies are JSON objects: functions from keys to values.         *)
(***************************************************************************)
Has(d, k) == k \in DOMAIN d

\* data.get(k, default)
GetOr(d, k, default) == IF Has(d, k) THEN d[k] ELSE default

\* not data.get(k), for a key that holds text
BlankStr(d, k) == ~Has(d, k) \/ d[k] = ""

\* not data.get('amount'), for a number: None and 0 are both falsy
BlankNum(d, k) == ~Has(d, k) \/ d[k] = 0

\* not data.get('accountId')
BlankId(d, k) == ~Has(d, k) \/ d[k] = NoId

(***************************************************************************)
(* Password hashing (werkzeug): a salted one-way digest.                   *)
(***************************************************************************)
Digest(salt, pw) == <<"scrypt", salt, pw>>

generate_password_hash(pw, salt) == [salt |-> salt, digest |-> Digest(salt, pw)]

\* A check that accepts every password.
check_password_hash_Any(h, pw) == TRUE

check_password_hash(h, pw) == h.digest = Digest(h.salt, pw)

(***************************************************************************)
(* Tokens (PyJWT, HS256).  A token is its payload and the key its          *)
(* signature was made with; key "" marks a string that is no JWT at all.   *)
(***************************************************************************)
\* The token generate_token(uid) makes on day t.
TokenOf(uid, t) == [sub |-> uid, iat |-> t, exp |-> t + TokenDays, key |-> SECRET_KEY]

generate_token(user_id) == TokenOf(user_id, now)

\* A decode that does not look at exp (options verify_exp=False).
jwt_decode_NoExpiry(tok, key, t) ==
    IF tok.key = "" THEN {[err |-> "DecodeError", sub |-> 0]}
    ELSE IF tok.key # key THEN {[err |-> "InvalidSignatureError", sub |-> 0]}
    ELSE {[err |-> "", sub |-> tok.sub]}

\* The outcomes of jwt.decode(token, key, algorithms=['HS256']) at time t.
\* The signature is verified before the claims.  At exp = t PyJWT 2 raises
\* ExpiredSignatureError (exp <= now) and PyJWT 1 accepts (exp < now): the
\* requirement pins no version, so both outcomes are possible there.
jwt_decode(tok, key, t) ==
    IF tok.key = "" THEN {[err |-> "DecodeError", sub |-> 0]}
    ELSE IF tok.key # key THEN {[err |-> "InvalidSignatureError", sub |-> 0]}
    ELSE IF tok.exp < t THEN {[err |-> "ExpiredSignatureError", sub |-> 0]}
    ELSE IF tok.exp = t
         THEN {[err |-> "ExpiredSignatureError", sub |-> 0], [err |-> "", sub |-> tok.sub]}
         ELSE {[err |-> "", sub |-> tok.sub]}

(***************************************************************************)
(* The tables.                                                             *)
(***************************************************************************)
\* User.query.get(id): the row or nothing.
UserById(id) == {u \in users : u.id = id}

\* A lookup by email that finds nobody.
UserByEmail_Nobody(e) == {}

\* User.query.filter_by(email=e)
UserByEmail(e) == {u \in users : u.email = e}

User_to_dict(u) ==
    [id |-> u.id, name |-> u.name, email |-> u.email, syncToken |-> u.sync_token]

Account_to_dict(a) == [id |-> a.id, name |-> a.name, icon |-> a.icon]

Transaction_to_dict(t) ==
    [id |-> t.id, accountId |-> t.account_id, amount |-> t.amount,
     description |-> t.description, category |-> t.category, date |-> t.date,
     type |-> t.type, method |-> t.method]

RECURSIVE Scans(_)
\* The orders in which a query without ORDER BY may yield the rows of S.
Scans(S) ==
    IF S = {} THEN {<<>>}
    ELSE UNION {{<<x>> \o q : q \in Scans(S \ {x})} : x \in S}

(***************************************************************************)
(* Responses.                                                              *)
(***************************************************************************)
NoHeader == <<>>

NoUser == 0

Error(msg) == [error |-> msg]

Response(op, hdr, arg, status, body, user) ==
    [op |-> op, hdr |-> hdr, arg |-> arg, status |-> status, body |-> body, user |-> user]

(***************************************************************************)
(* token_required: the outcomes of the gate for an Authorization header.   *)
(* An outcome with status 0 passes the request on to the handler with      *)
(* current_user = user; any other outcome is the response.                 *)
(***************************************************************************)
GateOutcome(out) ==
    IF out.err # "" THEN [status |-> 401, body |-> Error("Token is invalid!"), user |-> NoUser]
    ELSE IF UserById(out.sub) = {}
         THEN [status |-> 401, body |-> Error("Invalid token!"), user |-> NoUser]
         ELSE [status |-> 0, body |-> Error(""), user |-> out.sub]

token_required(hdr) ==
    IF hdr = NoHeader
    THEN {[status |-> 401, body |-> Error("Token is missing!"), user |-> NoUser]}
    ELSE IF Len(hdr) < 2
         THEN {[status |-> 401, body |-> Error("Token is invalid!"), user |-> NoUser]}
         ELSE {GateOutcome(out) : out \in jwt_decode(hdr[2], SECRET_KEY, now)}

\* The gate turned the request away: nothing runs, nothing is stored.
Rejected(op, hdr, arg, g) ==
    /\ g.status # 0
    /\ last' = Response(op, hdr, arg, g.status, g.body, NoUser)
    /\ UNCHANGED <<users, accounts, transactions, nextAcc, nextTx, now>>

(***************************************************************************)
(* Init: the state after db.create_all() on an empty database.             *)
(***************************************************************************)
Init ==
    /\ users = {}
    /\ accounts = {}
    /\ transactions = {}
    /\ nextAcc = 1
    /\ nextTx = 1
    /\ now = 0
    /\ last = Response("start", NoHeader, <<>>, 0, Error(""), NoUser)

\* A registration that adds no account.
DefaultAccounts_None(user_id) == {}

\* Auto-create default account: the rows register adds for a new user.
DefaultAccounts(user_id) ==
    {[id |-> nextAcc, user_id |-> user_id, name |-> "Cash Wallet", icon |-> "$"]}

(***************************************************************************)
(* POST /api/register                                                      *)
(***************************************************************************)
register(data, salt, new_token) ==
    LET new_user == [id |-> Cardinality(users) + 1,
                     name |-> GetOr(data, "name", "New User"),
                     email |-> data.email,
                     password_hash |-> generate_password_hash(data.password, salt),
                     sync_token |-> new_token]
    IN
    IF DOMAIN data = {} \/ BlankStr(data, "email") \/ BlankStr(data, "password")
    THEN /\ last' = Response("register", NoHeader, data, 400, Error("Missing required fields"), NoUser)
         /\ UNCHANGED <<users, accounts, transactions, nextAcc, nextTx, now>>
    ELSE IF UserByEmail(data.email) # {}
    THEN /\ last' = Response("register", NoHeader, data, 409,
                             Error("User with this email already exists"), NoUser)
         /\ UNCHANGED <<users, accounts, transactions, nextAcc, nextTx, now>>
    ELSE IF \E u \in users : u.sync_token = new_token
    THEN \* the unique constraint on sync_token fails the flush: nothing is committed
         /\ last' = Response("register", NoHeader, data, 500, Error("Internal Server Error"), NoUser)
         /\ UNCHANGED <<users, accounts, transactions, nextAcc, nextTx, now>>
    ELSE /\ users' = users \cup {new_user}
         /\ accounts' = accounts \cup DefaultAccounts(new_user.id)
         /\ nextAcc' = nextAcc + 1
         /\ last' = Response("register", NoHeader, data, 201,
                             [user |-> User_to_dict(new_user), token |-> generate_token(new_user.id)],
                             NoUser)
         /\ UNCHANGED <<transactions, nextTx, now>>

(***************************************************************************)
(* POST /api/login                                                         *)
(***************************************************************************)
login(data) ==
    /\ UNCHANGED <<users, accounts, transactions, nextAcc, nextTx, now>>
    /\ IF DOMAIN data = {} \/ BlankStr(data, "email") \/ BlankStr(data, "password")
       THEN last' = Response("login", NoHeader, data, 400, Error("Missing email or password"), NoUser)
       ELSE IF \E user \in UserByEmail(data.email) :
                    check_password_hash(user.password_hash, data.password)
       THEN \E user \in UserByEmail(data.email) :
                last' = Response("login", NoHeader, data, 200,
                                 [user |-> User_to_dict(user), token |-> generate_token(user.id)],
                                 NoUser)
       ELSE last' = Response("login", NoHeader, data, 401, Error("Invalid credentials"), NoUser)

(***************************************************************************)
(* GET /api/accounts                                                       *)
(***************************************************************************)
get_accounts(hdr) ==
    \E g \in token_required(hdr) :
        \/ Rejected("get_accounts", hdr, <<>>, g)
        \/ /\ g.status = 0
           /\ \E rows \in Scans({a \in accounts : a.user_id = g.user}) :
                 last' = Response("get_accounts", hdr, <<>>, 200,
                                  [i \in 1..Len(rows) |-> Account_to_dict(rows[i])], g.user)
           /\ UNCHANGED <<users, accounts, transactions, nextAcc, nextTx, now>>

(***************************************************************************)
(* POST /api/accounts                                                      *)
(***************************************************************************)
add_account(hdr, data) ==
    \E g \in token_required(hdr) :
        \/ Rejected("add_account", hdr, data, g)
        \/ /\ g.status = 0
           /\ IF BlankStr(data, "name")
              THEN /\ last' = Response("add_account", hdr, data, 400,
                                       Error("Account name is required"), g.user)
                   /\ UNCHANGED <<users, accounts, transactions, nextAcc, nextTx, now>>
              ELSE LET new_acc == [id |-> nextAcc, user_id |-> g.user, name |-> data.name,
                                   icon |-> GetOr(data, "icon", "briefcase")]
                   IN /\ nextAcc - 1 - Cardinality(users) < MaxAdded
                      /\ accounts' = accounts \cup {new_acc}
                      /\ nextAcc' = nextAcc + 1
                      /\ last' = Response("add_account", hdr, data, 201,
                                          Account_to_dict(new_acc), g.user)
                      /\ UNCHANGED <<users, transactions, nextTx, now>>

(***************************************************************************)
(* GET /api/transactions                                                   *)
(***************************************************************************)
\* The rows of S that no row of S sorts before, by date descending.
FirstByDateDesc(S) == {t \in S : \A u \in S : StrGeq(t.date, u.date)}

\* The rows in any order at all: the query without its order_by.
OrderByNothing(S) == Scans(S)

RECURSIVE OrderByDateDesc(_)
\* .order_by(Transaction.date.desc()) over the rows S: the results the query
\* may give.  The database fixes no order among rows of equal date.
OrderByDateDesc(S) ==
    IF S = {} THEN {<<>>}
    ELSE UNION {{<<t>> \o q : q \in OrderByDateDesc(S \ {t})} : t \in FirstByDateDesc(S)}

\* Transaction.query.filter_by(user_id=uid)
TransactionsOf(uid) == {t \in transactions : t.user_id = uid}

get_transactions(hdr) ==
    \E g \in token_required(hdr) :
        \/ Rejected("get_transactions", hdr, <<>>, g)
        \/ /\ g.status = 0
           /\ \E rows \in OrderByDateDesc(TransactionsOf(g.user)) :
                 last' = Response("get_transactions", hdr, <<>>, 200,
                                  [i \in 1..Len(rows) |-> Transaction_to_dict(rows[i])],
                                  g.user)
           /\ UNCHANGED <<users, accounts, transactions, nextAcc, nextTx, now>>

(***************************************************************************)
(* POST /api/transactions                                                  *)
(***************************************************************************)
\* float(x) of a JSON number: the same number.
float(x) == x

add_transaction(hdr, data) ==
    \E g \in token_required(hdr) :
        \/ Rejected("add_transaction", hdr, data, g)
        \/ /\ g.status = 0
           /\ IF BlankId(data, "accountId") \/ BlankNum(data, "amount")
              THEN /\ last' = Response("add_transaction", hdr, data, 400,
                                       Error("Missing transaction data"), g.user)
                   /\ UNCHANGED <<users, accounts, transactions, nextAcc, nextTx, now>>
              ELSE LET new_tx == [id |-> nextTx,
                                  user_id |-> g.user,
                                  account_id |-> data.accountId,
                                  amount |-> float(data.amount),
                                  description |-> GetOr(data, "description", "No description"),
                                  category |-> GetOr(data, "category", "Other"),
                                  date |-> GetOr(data, "date", Today(now)),
                                  type |-> GetOr(data, "type", "expense"),
                                  method |-> GetOr(data, "method", "cash")]
                   IN /\ nextTx <= MaxTx
                      /\ transactions' = transactions \cup {new_tx}
                      /\ nextTx' = nextTx + 1
                      /\ last' = Response("add_transaction", hdr, data, 201,
                                          [id |-> new_tx.id], g.user)
                      /\ UNCHANGED <<users, accounts, nextAcc, now>>

(***************************************************************************)
(* DELETE /api/transactions?id=                                            *)
(***************************************************************************)
\* The lookup without the owner: filter_by(id=tx_id) alone.
OwnTransaction_AnyOwner(tx_id, uid) == {t \in transactions : t.id = tx_id}

\* Transaction.query.filter_by(id=tx_id, user_id=uid)
OwnTransaction(tx_id, uid) == {t \in transactions : t.id = tx_id /\ t.user_id = uid}

delete_transaction(hdr, tx_id) ==
    \E g \in token_required(hdr) :
        \/ Rejected("delete_transaction", hdr, tx_id, g)
        \/ /\ g.status = 0
           /\ IF OwnTransaction(tx_id, g.user) = {}
              THEN /\ last' = Response("delete_transaction", hdr, tx_id, 404,
                                       Error("Transaction not found"), g.user)
                   /\ UNCHANGED <<users, accounts, transactions, nextAcc, nextTx, now>>
              ELSE /\ transactions' = transactions \ OwnTransaction(tx_id, g.user)
                   /\ last' = Response("delete_transaction", hdr, tx_id, 200,
                                       [success |-> TRUE], g.user)
                   /\ UNCHANGED <<users, accounts, nextAcc, nextTx, now>>

(***************************************************************************)
(* The clock: a day passes.                                                *)
(***************************************************************************)
Tick(lastDay) ==
    /\ now < lastDay
    /\ now' = now + 1
    /\ UNCHANGED <<users, accounts, transactions, nextAcc, nextTx, last>>

(***************************************************************************)
(* What the clients send.                                                  *)
(***************************************************************************)
D0101 == <<"2", "0", "2", "4", "-", "0", "1", "-", "0", "1">>

D0201 == <<"2", "0", "2", "4", "-", "0", "2", "-", "0", "1">>

D0301 == <<"2", "0", "2", "4", "-", "0", "3", "-", "0", "1">>

\* "Authorization: <scheme> <token>" as token.split(" ") sees it.
Header(scheme, tok) == <<scheme, tok>>

\* A client holds no token made in the future.
Presentable(hdr) == Len(hdr) >= 2 => hdr[2].iat <= now

\* The headers of the first and of the second user to register, each with
\* a token made on day 0.
Bearer1 == Header("Bearer", TokenOf(1, 0))

Bearer2 == Header("Bearer", TokenOf(2, 0))

\* The server under the requests `in`: for each route the requests that
\* reach it, for register with the salt and the sync token the server draws.
Requests(in) ==
    \/ \E r \in in.register : register(r[1], r[2], r[3])
    \/ \E data \in in.login : login(data)
    \/ \E hdr \in in.list : Presentable(hdr) /\ get_accounts(hdr)
    \/ \E r \in in.accounts : Presentable(r[1]) /\ add_account(r[1], r[2])
    \/ \E hdr \in in.list : Presentable(hdr) /\ get_transactions(hdr)
    \/ \E r \in in.transactions : Presentable(r[1]) /\ add_transaction(r[1], r[2])
    \/ \E r \in in.delete : Presentable(r[1]) /\ delete_transaction(r[1], r[2])

(***************************************************************************)
(* SpecTx: two users, their accounts and their transactions, within one    *)
(* day.                                                                    *)
(***************************************************************************)
TxInputs ==
    [register |-> {<<[email |-> "a@x.com", password |-> "p"], "s1", "SF-0A1B2C">>,
                   <<[email |-> "b@x.com", password |-> "q", name |-> "Bob"], "s2", "SF-3D4E5F">>},
     login |-> {[email |-> "a@x.com", password |-> "p"]},
     list |-> {Bearer1, Bearer2},
     accounts |-> {<<Bearer2, [name |-> "Bank"]>>},
     transactions |->
        {<<Bearer1, [accountId |-> 1, amount |-> 10, date |-> D0101]>>,
         <<Bearer1, [accountId |-> 1, amount |-> -5, date |-> D0301, description |-> "Rent",
                     category |-> "Home", type |-> "income", method |-> "card"]>>,
         <<Bearer2, [accountId |-> 2, amount |-> 10, date |-> D0201]>>},
     delete |-> {Bearer1, Bearer2} \X (1..MaxTx)]

NextTx == Requests(TxInputs)

SpecTx == Init /\ [][NextTx]_vars

(***************************************************************************)
(* Claims checked under SpecTx.                                            *)
(***************************************************************************)
\* The step serves a request (last' is that request and its response): it is
\* no step of the clock.
Served == now' = now

\* The user a request's token was issued for: the token is signed with the
\* server's key and its subject is a registered user.
Bearer(r) ==
    IF Len(r.hdr) >= 2 /\ r.hdr[2].key = SECRET_KEY /\ UserById(r.hdr[2].sub) # {}
    THEN r.hdr[2].sub
    ELSE NoUser

Listed(r) == {r.body[i].id : i \in 1..Len(r.body)}

\* C1: a request carrying a token issued for user A never returns, in the
\* account list or in the transaction list, a row owned by another user, and
\* a delete-transaction request carrying A's token never removes a
\* transaction of another user: it is answered 404 and the transactions are
\* unchanged.
C1_TokenIsolation ==
    [][Served =>
       /\ (last'.op = "get_accounts" /\ last'.status = 200) =>
            \A id \in Listed(last') :
                \E a \in accounts' : a.id = id /\ a.user_id = Bearer(last')
       /\ (last'.op = "get_transactions" /\ last'.status = 200) =>
            \A id \in Listed(last') :
                \E t \in transactions' : t.id = id /\ t.user_id = Bearer(last')
       /\ (last'.op = "delete_transaction" /\ Bearer(last') # NoUser) =>
            /\ \A t \in transactions : t.user_id # Bearer(last') => t \in transactions'
            /\ (\E t \in transactions : t.id = last'.arg /\ t.user_id # Bearer(last')) =>
                    (last'.status = 404 /\ transactions' = transactions)
      ]_vars

\* C1's case: user 1 asked to delete a transaction of user 2 and got 404,
\* while both users hold transactions.
C1_Witness ==
    /\ last.op = "delete_transaction"
    /\ last.status = 404
    /\ Bearer(last) = 1
    /\ \E t \in transactions : t.id = last.arg /\ t.user_id = 2
    /\ \E t \in transactions : t.user_id = 1

\* C9: the list-transactions response for user U holds exactly the
\* transactions U owns, each once, and of every two consecutive entries the
\* earlier one's date is greater than or equal to the later one's.
C9_ListedByDateDesc ==
    (last.op = "get_transactions" /\ last.status = 200) =>
        /\ Len(last.body) = Cardinality(Listed(last))
        /\ \A i \in 1..Len(last.body) :
              \E t \in transactions :
                  t.user_id = last.user /\ Transaction_to_dict(t) = last.body[i]
        /\ \A t \in transactions : t.user_id = last.user => t.id \in Listed(last)
        /\ \A i \in 1..(Len(last.body) - 1) : StrGeq(last.body[i].date, last.body[i + 1].date)

\* C9's case: a list of two transactions whose later-made one comes first,
\* while another user holds a transaction too.
C9_Witness ==
    /\ last.op = "get_transactions"
    /\ last.status = 200
    /\ Len(last.body) = 2
    /\ last.body[1].id > last.body[2].id
    /\ last.body[1].date # last.body[2].date
    /\ \E t \in transactions : t.user_id # last.user

(***************************************************************************)
(* SpecCreate: the bodies a create-transaction request may carry, over two *)
(* days.                                                                   *)
(***************************************************************************)
CreateInputs ==
    [register |-> {<<[email |-> "a@x.com", password |-> "p"], "s1", "SF-0A1B2C">>,
                   <<[email |-> "b@x.com", password |-> "q"], "s2", "SF-3D4E5F">>},
     login |-> {[email |-> "a@x.com", password |-> "p"]},
     list |-> {Bearer1, Bearer2},
     accounts |-> {<<Bearer1, [name |-> "Bank"]>>, <<Bearer2, <<>> >>},
     transactions |->
        ({Bearer1} \X
            {[accountId |-> 1, amount |-> -5, date |-> D0301, description |-> "Rent",
              category |-> "Home", type |-> "income", method |-> "card"],
             [accountId |-> 2, amount |-> 10],
             [accountId |-> 1, amount |-> 0, date |-> D0201],
             [accountId |-> 1],
             [amount |-> 10],
             <<>>})
        \cup {<<Bearer2, [accountId |-> 1, amount |-> 10, date |-> D0101]>>},
     delete |-> {<<Bearer1, 0>>, <<Bearer1, 1>>, <<Bearer2, 1>>}]

NextCreate == Requests(CreateInputs) \/ Tick(1)

SpecCreate == Init /\ [][NextCreate]_vars

\* C8: an authenticated create-transaction request is answered 400, storing
\* nothing, exactly when the account id or the amount is missing from the
\* body; with both supplied it is answered 201 and adds exactly one
\* transaction, owned by the caller, with the supplied account id and amount
\* and the other fields as supplied or defaulted.
C8_CreateValidation ==
    [][(Served /\ last'.op = "add_transaction" /\ last'.user # NoUser) =>
        IF ~Has(last'.arg, "accountId") \/ ~Has(last'.arg, "amount")
        THEN last'.status = 400 /\ transactions' = transactions
        ELSE /\ last'.status = 201
             /\ \E t \in transactions' \ transactions :
                   /\ transactions' = transactions \cup {t}
                   /\ t.id = last'.body.id
                   /\ t.user_id = last'.user
                   /\ t.account_id = last'.arg.accountId
                   /\ t.amount = last'.arg.amount
                   /\ t.description = GetOr(last'.arg, "description", "No description")
                   /\ t.category = GetOr(last'.arg, "category", "Other")
                   /\ t.date = GetOr(last'.arg, "date", Today(now))
                   /\ t.type = GetOr(last'.arg, "type", "expense")
                   /\ t.method = GetOr(last'.arg, "method", "cash")
      ]_vars

\* C10: every stored transaction's account reference names an existing
\* account whose owner is the transaction's owner.
C10_AccountOfSameUser ==
    \A t \in transactions :
        \E a \in accounts : a.id = t.account_id /\ a.user_id = t.user_id

(***************************************************************************)
(* SpecUsers: registration and login.                                      *)
(***************************************************************************)
UserInputs ==
    [register |->
        {<<[email |-> "a@x.com", password |-> "p", name |-> "Ann"], "s1", "SF-0A1B2C">>,
         <<[email |-> "a@x.com", password |-> "q"], "s2", "SF-3D4E5F">>,
         <<[email |-> "b@x.com", password |-> "q"], "s1", "SF-3D4E5F">>,
         <<[email |-> "b@x.com", password |-> "q"], "s2", "SF-0A1B2C">>,
         <<[email |-> "a@x.com"], "s1", "SF-0A1B2C">>,
         <<[password |-> "p"], "s1", "SF-0A1B2C">>,
         <<<<>>, "s1", "SF-0A1B2C">>},
     login |->
        {[email |-> "a@x.com", password |-> "p"],
         [email |-> "a@x.com", password |-> "q"],
         [email |-> "b@x.com", password |-> "q"],
         [email |-> "c@x.com", password |-> "p"],
         [email |-> "a@x.com"]},
     list |-> {Bearer1},
     accounts |-> {<<Bearer1, [name |-> "Bank"]>>},
     transactions |-> {<<Bearer1, [accountId |-> 1, amount |-> 10, date |-> D0101]>>},
     delete |-> {<<Bearer1, 1>>}]

NextUsers == Requests(UserInputs) \/ Tick(1)

SpecUsers == Init /\ [][NextUsers]_vars

\* C2: once a register request with email e has succeeded, every later
\* register request with email e and a password, whatever the name and the
\* password, is answered 409 and creates no user and no account; no state
\* holds two users with the same email.
C2_DuplicateEmail ==
    [][/\ (/\ Served
           /\ last'.op = "register"
           /\ ~BlankStr(last'.arg, "email")
           /\ ~BlankStr(last'.arg, "password")
           /\ \E u \in users : u.email = last'.arg.email) =>
            (last'.status = 409 /\ users' = users /\ accounts' = accounts)
       /\ \A u, v \in users' : u.email = v.email => u = v
      ]_vars

\* C2's case: a register request for a registered email, with another name
\* and password than the registered ones, was answered 409.
C2_Witness ==
    /\ last.op = "register"
    /\ last.status = 409
    /\ \E u \in users :
          /\ u.email = last.arg.email
          /\ u.name # GetOr(last.arg, "name", "New User")
          /\ ~check_password_hash(u.password_hash, last.arg.password)

AccountsOf(uid) == {a \in accounts : a.user_id = uid}

\* C3: in every state each user owns at least one account, and right after
\* a successful register the new user owns exactly one account, named
\* "Cash Wallet".
C3_DefaultAccount ==
    /\ \A u \in users : AccountsOf(u.id) # {}
    /\ (last.op = "register" /\ last.status = 201) =>
          /\ UserById(last.body.user.id) # {}
          /\ Cardinality(AccountsOf(last.body.user.id)) = 1
          /\ \A a \in AccountsOf(last.body.user.id) : a.name = "Cash Wallet"

\* C3's case: the second user has just registered, while the first user
\* holds two accounts.
C3_Witness ==
    /\ last.op = "register"
    /\ last.status = 201
    /\ last.body.user.id = 2
    /\ Cardinality(AccountsOf(1)) = 2

\* The password a stored hash was made from.
PasswordOf(u) == u.password_hash.digest[3]

\* C6: a login with a registered email and a wrong password and a login
\* with an email of no user get the same response, 401 with the error
\* "Invalid credentials"; a login with a registered email and its password
\* gets 200 with that user's public representation and a token whose
\* subject is that user's id.
C6_Login ==
    (/\ last.op = "login"
     /\ ~BlankStr(last.arg, "email")
     /\ ~BlankStr(last.arg, "password")) =>
        IF \E u \in users : u.email = last.arg.email /\ PasswordOf(u) = last.arg.password
        THEN /\ last.status = 200
             /\ \E u \in users :
                   /\ u.email = last.arg.email
                   /\ last.body.user = [id |-> u.id, name |-> u.name, email |-> u.email,
                                        syncToken |-> u.sync_token]
                   /\ last.body.token.sub = u.id
                   /\ last.body.token.key = SECRET_KEY
        ELSE last.status = 401 /\ last.body = [error |-> "Invalid credentials"]

\* C6's case: a login with a registered email and a wrong password was
\* answered 401, in a state where another email is not registered.
C6_Witness ==
    /\ last.op = "login"
    /\ last.status = 401
    /\ \E u \in users : u.email = last.arg.email /\ PasswordOf(u) # last.arg.password
    /\ \A u \in users : u.email # "c@x.com"

(***************************************************************************)
(* SpecAuth: the auth gate under headers of every shape, over the life of  *)
(* a token.                                                                *)
(***************************************************************************)
\* A token for user 1 signed with another key than the server's.
Forged == [sub |-> 1, iat |-> 0, exp |-> TokenDays, key |-> OtherKey]

\* A second field that is no JWT.
NotAJwt == [sub |-> 0, iat |-> 0, exp |-> 0, key |-> ""]

AuthHeaders ==
    {NoHeader,
     <<"Bearer">>,
     Header("Bearer", TokenOf(1, 0)),
     Header("Bearer", TokenOf(1, 1)),
     Header("Bearer", TokenOf(2, 0)),
     Header("Bearer", Forged),
     Header("Bearer", NotAJwt),
     Header("Token", TokenOf(1, 0))}

AuthInputs ==
    [register |-> {<<[email |-> "a@x.com", password |-> "p"], "s1", "SF-0A1B2C">>},
     login |-> {[email |-> "a@x.com", password |-> "p"]},
     list |-> AuthHeaders,
     accounts |-> AuthHeaders \X {[name |-> "Bank"]},
     transactions |-> AuthHeaders \X {[accountId |-> 1, amount |-> 10, date |-> D0101]},
     delete |-> AuthHeaders \X {1}]

NextAuth == Requests(AuthInputs) \/ Tick(MaxNow)

SpecAuth == Init /\ [][NextAuth]_vars

Protected ==
    {"get_accounts", "add_account", "get_transactions", "add_transaction", "delete_transaction"}

\* The header is "Bearer <token>" with a JWT for token.
BearerForm(hdr) == Len(hdr) = 2 /\ hdr[1] = "Bearer" /\ hdr[2].key # ""

\* C5: every protected request is answered 401, without running the handler
\* and without changing the store, whenever the Authorization header is
\* absent, is not of the form "Bearer <token>", carries a token that fails
\* signature or expiry verification, or carries a valid token whose subject
\* is no user; the handler runs only with the user of the token's subject.
C5_Unauthorized ==
    [][(Served /\ last'.op \in Protected) =>
        /\ (\/ last'.hdr = NoHeader
            \/ ~BearerForm(last'.hdr)
            \/ last'.hdr[2].key # SECRET_KEY
            \/ last'.hdr[2].exp < now
            \/ UserById(last'.hdr[2].sub) = {}) =>
                /\ last'.status = 401
                /\ last'.user = NoUser
                /\ store' = store
        /\ last'.user # NoUser =>
                /\ Len(last'.hdr) >= 2
                /\ last'.user = last'.hdr[2].sub
                /\ UserById(last'.user) # {}
      ]_vars

\* What the gate reports for a token signed with another secret.
SignatureReports == {g.body.error : g \in token_required(Header("Bearer", Forged))}

\* The request carries a JWT for a registered user in a "Bearer" header.
CarriesToken(r) ==
    r.op \in Protected /\ BearerForm(r.hdr) /\ UserById(r.hdr[2].sub) # {}

\* C7 as stated: a token fails the gate once more than 7 days have passed
\* since it was issued, reported with an expiry-specific error; a token
\* signed with another secret fails with a signature error distinct from the
\* expiry error; a token issued less than 7 days ago with the server's
\* secret for an existing user is accepted.
C7_ExpiryReported ==
    [][(Served /\ CarriesToken(last')) =>
        /\ (last'.hdr[2].key = SECRET_KEY /\ now - last'.hdr[2].iat > TokenDays) =>
                (last'.status = 401 /\ last'.body.error \notin SignatureReports)
        /\ last'.hdr[2].key # SECRET_KEY =>
                (last'.status = 401 /\ last'.body.error \in SignatureReports)
        /\ (last'.hdr[2].key = SECRET_KEY /\ now - last'.hdr[2].iat < TokenDays) =>
                last'.user = last'.hdr[2].sub
      ]_vars

\* C7 amended: a token fails the gate with 401 once more than 7 days have
\* passed since it was issued, and so does a token signed with another
\* secret; the verifier fails the first with ExpiredSignatureError and the
\* second with InvalidSignatureError, and the gate reports both with the
\* same error, "Token is invalid!".  A token issued less than 7 days ago
\* with the server's secret for an existing user is accepted.
C7_TokenLifetime ==
    [][(Served /\ CarriesToken(last')) =>
        /\ (last'.hdr[2].key = SECRET_KEY /\ now - last'.hdr[2].iat > TokenDays) =>
                /\ last'.status = 401
                /\ last'.user = NoUser
                /\ last'.body = [error |-> "Token is invalid!"]
                /\ \A out \in jwt_decode(last'.hdr[2], SECRET_KEY, now) :
                      out.err = "ExpiredSignatureError"
        /\ last'.hdr[2].key # SECRET_KEY =>
                /\ last'.status = 401
                /\ last'.user = NoUser
                /\ last'.body = [error |-> "Token is invalid!"]
                /\ \A out \in jwt_decode(last'.hdr[2], SECRET_KEY, now) :
                      out.err = "InvalidSignatureError"
        /\ (last'.hdr[2].key = SECRET_KEY /\ now - last'.hdr[2].iat < TokenDays) =>
                /\ last'.user = last'.hdr[2].sub
                /\ last'.status # 401
      ]_vars

\* C7's case: a request with a token of the registered user, signed with
\* the server's secret and issued more than 7 days before, was turned away.
C7_Witness ==
    /\ CarriesToken(last)
    /\ last.hdr[2].key = SECRET_KEY
    /\ now - last.hdr[2].iat > TokenDays
    /\ last.status = 401

(***************************************************************************)
(* DELETE /api/accounts?id= : src/Backend/app.py routes only GET and POST  *)
(* on /api/accounts; the handler below is the one the specification        *)
(* describes (Account Management, Delete), run behind the same gate.       *)
(***************************************************************************)
\* the account with this id, if the caller owns it
OwnAccount(acc_id, uid) == {a \in accounts : a.id = acc_id /\ a.user_id = uid}

delete_account(hdr, acc_id) ==
    \E g \in token_required(hdr) :
        \/ Rejected("delete_account", hdr, acc_id, g)
        \/ /\ g.status = 0
           /\ IF OwnAccount(acc_id, g.user) = {}
              THEN /\ last' = Response("delete_account", hdr, acc_id, 404,
                                       Error("Account not found"), g.user)
                   /\ UNCHANGED <<users, accounts, transactions, nextAcc, nextTx, now>>
              ELSE /\ transactions' =
                        {t \in transactions : ~(t.account_id = acc_id /\ t.user_id = g.user)}
                   /\ accounts' = accounts \ OwnAccount(acc_id, g.user)
                   /\ last' = Response("delete_account", hdr, acc_id, 200,
                                       [success |-> TRUE], g.user)
                   /\ UNCHANGED <<users, nextAcc, nextTx, now>>

(***************************************************************************)
(* SpecAccounts: the routes of the source and the delete-account route.    *)
(***************************************************************************)
AccountInputs ==
    [register |-> {<<[email |-> "a@x.com", password |-> "p"], "s1", "SF-0A1B2C">>,
                   <<[email |-> "b@x.com", password |-> "q"], "s2", "SF-3D4E5F">>},
     login |-> {[email |-> "a@x.com", password |-> "p"]},
     list |-> {Bearer1, Bearer2},
     accounts |-> {<<Bearer1, [name |-> "Bank"]>>},
     transactions |->
        {<<Bearer1, [accountId |-> 1, amount |-> 10, date |-> D0101]>>,
         <<Bearer1, [accountId |-> 3, amount |-> -5, date |-> D0201]>>,
         <<Bearer2, [accountId |-> 1, amount |-> 10, date |-> D0301]>>},
     delete |-> {<<Bearer1, 1>>, <<Bearer2, 1>>}]

AccountDeletes == {Bearer1, Bearer2} \X (1..3)

NextAccounts ==
    \/ Requests(AccountInputs)
    \/ \E r \in AccountDeletes : Presentable(r[1]) /\ delete_account(r[1], r[2])

SpecAccounts == Init /\ [][NextAccounts]_vars

\* A transaction that references an account that was deleted: its account
\* id was handed out and names no account.
Orphaned(t) ==
    /\ t.account_id \in 1..(nextAcc - 1)
    /\ \A a \in accounts : a.id # t.account_id

\* C4: a delete-account request by user U for account a is answered 200 if
\* U owns a, and then a is gone, no transaction of U on a remains, and every
\* other row is unchanged; it is answered 404 and changes nothing if U does
\* not own a.  No state holds a transaction that references a deleted
\* account.
C4_DeleteAccount ==
    [][Served =>
       /\ (last'.op = "delete_account" /\ last'.user # NoUser) =>
            IF \E a \in accounts : a.id = last'.arg /\ a.user_id = last'.user
            THEN /\ last'.status = 200
                 /\ \A a \in accounts' : a.id # last'.arg
                 /\ \A a \in accounts : a.id # last'.arg => a \in accounts'
                 /\ \A t \in transactions' :
                       ~(t.user_id = last'.user /\ t.account_id = last'.arg)
                 /\ \A t \in transactions :
                       (t.user_id # last'.user \/ t.account_id # last'.arg) =>
                           t \in transactions'
                 /\ users' = users
            ELSE last'.status = 404 /\ store' = store
       /\ \A t \in transactions' : ~Orphaned(t)'
      ]_vars

====
